---- MODULE Spec2Model ----
(***************************************************************************)
(* Skill standardization and matching engine of Employment-Match.          *)
(*                                                                         *)
(* Chars gives the characters of a string, so that str.lower(),            *)
(* str.strip() and rapidfuzz's fuzz.ratio are computed, not assumed.       *)
(* Cosine similarities are in tenths (3 = 0.3, 10 = 1.0), fuzzy scores and *)
(* match scores in hundredths (8571 = 85.71, 5000 = 50.00).                *)
(***************************************************************************)
EXTENDS Integers, Sequences, FiniteSets, TLC

(***************************************************************************)
(* Bounds of the model.                                                    *)
(***************************************************************************)
MaxCv == 3
MaxJob == 2
MaxSegments == 2
MaxRecords == 3
MaxTexts == 4
MaxBatch == 2
MaxWorkers == 2

(***************************************************************************)
(* Skill names the requests are drawn from, and their characters.          *)
(***************************************************************************)
Names == {"sql", "Sqls", "AWS"}

\* the stretches of text between commas in what the generative model answers
Segments == {" ", " sql ", "aws"}

Strings == Names \cup Segments \cup {"", " sql", "sql ", "SQL"}

Chars(s) ==
    CASE s = "sql" -> <<"s", "q", "l">>
      [] s = "Sqls" -> <<"S", "q", "l", "s">>
      [] s = "AWS" -> <<"A", "W", "S">>
      [] s = "SQL" -> <<"S", "Q", "L">>
      [] s = "aws" -> <<"a", "w", "s">>
      [] s = "" -> <<>>
      [] s = " " -> <<" ">>
      [] s = " sql" -> <<" ", "s", "q", "l">>
      [] s = "sql " -> <<"s", "q", "l", " ">>
      [] s = " sql " -> <<" ", "s", "q", "l", " ">>

\* the string with the given characters
StrOf(cs) == CHOOSE s \in Strings : Chars(s) = cs

\* An Optional value: {} is Python's None, {x} is x
None == {}

IsNone(o) == o = {}

Value(o) == CHOOSE x \in o : TRUE

SeqsUpTo(S, n) == UNION {[1..k -> S] : k \in 0..n}

Range(s) == {s[i] : i \in DOMAIN s}

Max(a, b) == IF a >= b THEN a ELSE b

(***************************************************************************)
(* str.lower()                                                             *)
(***************************************************************************)
LowerChar(c) ==
    CASE c = "S" -> "s"
      [] c = "A" -> "a"
      [] c = "W" -> "w"
      [] c = "Q" -> "q"
      [] c = "L" -> "l"
      [] OTHER -> c

Lower(s) == [i \in DOMAIN Chars(s) |-> LowerChar(Chars(s)[i])]

(***************************************************************************)
(* rapidfuzz fuzz.ratio: the normalized Indel similarity,                  *)
(* 100 * 2 * LCS(a, b) / (|a| + |b|), here in hundredths.                   *)
(***************************************************************************)
RECURSIVE LCS(_, _)
LCS(a, b) ==
    IF a = <<>> \/ b = <<>> THEN 0
    ELSE IF Head(a) = Head(b) THEN 1 + LCS(Tail(a), Tail(b))
    ELSE Max(LCS(Tail(a), b), LCS(a, Tail(b)))

FuzzRatio(a, b) ==
    IF Len(a) + Len(b) = 0 THEN 10000
    ELSE (20000 * LCS(a, b)) \div (Len(a) + Len(b))

\* fuzz.ratio(cv_skill.lower(), job_skill.lower()), tabulated over Names
LoweredRatio == [a \in Names, b \in Names |-> FuzzRatio(Lower(a), Lower(b))]

(***************************************************************************)
(* The sentence embedder and cosine_similarity. The embedder is a function *)
(* from text to a unit vector; the model has three unit vectors and their  *)
(* cosines (a positive definite Gram matrix), in tenths.                   *)
(***************************************************************************)
Vectors == {"u", "v", "w"}

CosineTable(a, b) ==
    CASE a = b -> 10
      [] {a, b} = {"u", "v"} -> 3
      [] {a, b} = {"v", "w"} -> 6
      [] OTHER -> 0

\* cosine_similarity(X, Y): the matrix of pairwise cosines
cosine_similarity(X, Y) ==
    [i \in DOMAIN X |-> [j \in DOMAIN Y |-> CosineTable(X[i], Y[j])]]

\* compute_embeddings: model.encode(skills), or the empty array when it raises
compute_embeddingsMutant(skills, model, ok) == [i \in DOMAIN skills |-> model[skills[i]]]

compute_embeddings(skills, model, ok) ==
    IF ok THEN [i \in DOMAIN skills |-> model[skills[i]]] ELSE <<>>

(***************************************************************************)
(* numpy and list helpers                                                  *)
(***************************************************************************)
RECURSIVE SeqMax(_)
SeqMax(row) ==
    IF Len(row) = 1 THEN row[1] ELSE Max(row[1], SeqMax(Tail(row)))

\* the first index holding m
FirstIndex(row, m) == CHOOSE j \in DOMAIN row :
    row[j] = m /\ \A k \in 1..(j - 1) : row[k] # m

\* np.argmax: the first index holding the maximum
ArgMax(row) == FirstIndex(row, SeqMax(row))

\* x in list
In(x, s) == \E i \in DOMAIN s : s[i] = x

\* list.remove(x): drops the first occurrence of x
ListRemove(s, x) ==
    LET k == CHOOSE i \in DOMAIN s : s[i] = x /\ \A j \in 1..(i - 1) : s[j] # x
    IN  [i \in 1..(Len(s) - 1) |-> IF i < k THEN s[i] ELSE s[i + 1]]

\* `if x in s: s.remove(x)`
RemoveIfInMutant(s, x) == SelectSeq(s, LAMBDA y : y # x)

RemoveIfIn(s, x) == IF In(x, s) THEN ListRemove(s, x) ELSE s

\* round(num / den * 100, 2), in hundredths. A tie between two hundredths
\* needs den to be a multiple of 32, beyond the lists of this model.
Round2Mutant(num, den) == ((100 * num) \div den) * 100

Round2(num, den) == (20000 * num + den) \div (2 * den)

(***************************************************************************)
(* match_skills.match_skills                                               *)
(***************************************************************************)
DegenerateMutant(cv_skills, job_skills) ==
    [match_score |-> 0, matched_skills |-> <<>>,
     missing_skills |-> <<>>, extra_skills |-> cv_skills]

Degenerate(cv_skills, job_skills) ==
    [match_score |-> 0, matched_skills |-> <<>>,
     missing_skills |-> job_skills, extra_skills |-> cv_skills]

\* the fuzzy fallback: the first job skill whose ratio clears the threshold,
\* 0 when the scan ends without a break
FuzzyScanMutant(cv_skill, job_skills, fuzzy_threshold) ==
    IF \A j \in DOMAIN job_skills :
            LoweredRatio[cv_skill, job_skills[j]] < fuzzy_threshold * 100
    THEN 0
    ELSE CHOOSE j \in DOMAIN job_skills :
            /\ \A k \in DOMAIN job_skills :
                  LoweredRatio[cv_skill, job_skills[k]] <= LoweredRatio[cv_skill, job_skills[j]]
            /\ \A k \in 1..(j - 1) :
                  LoweredRatio[cv_skill, job_skills[k]] < LoweredRatio[cv_skill, job_skills[j]]

FuzzyScan(cv_skill, job_skills, fuzzy_threshold) ==
    IF \A j \in DOMAIN job_skills :
            LoweredRatio[cv_skill, job_skills[j]] < fuzzy_threshold * 100
    THEN 0
    ELSE CHOOSE j \in DOMAIN job_skills :
            /\ LoweredRatio[cv_skill, job_skills[j]] >= fuzzy_threshold * 100
            /\ \A k \in 1..(j - 1) :
                  LoweredRatio[cv_skill, job_skills[k]] < fuzzy_threshold * 100

\* matched_skills.append(record) and the two guarded removals
RecordMutant(st, record) ==
    [matched |-> Append(st.matched, record),
     missing |-> RemoveIfIn(st.missing, record.job_skill),
     extra |-> st.extra]

Record(st, record) ==
    [matched |-> Append(st.matched, record),
     missing |-> RemoveIfIn(st.missing, record.job_skill),
     extra |-> RemoveIfIn(st.extra, record.cv_skill)]

\* the else branch of the loop body: j is the index FuzzyScan stopped at
FuzzyFallbackMutant(st, cv_skill, job_skills, j) ==
    IF j = 0 THEN st
    ELSE Record(st, [cv_skill |-> cv_skill,
                     job_skill |-> job_skills[j],
                     similarity |-> 0,
                     fuzzy_score |-> LoweredRatio[cv_skill, job_skills[j]]])

FuzzyFallback(st, cv_skill, job_skills, j) ==
    IF j = 0 THEN st
    ELSE Record(st, [cv_skill |-> cv_skill,
                     job_skill |-> job_skills[j],
                     fuzzy_score |-> LoweredRatio[cv_skill, job_skills[j]]])

\* one iteration of the loop over cv_skills
MatchStep(st, cv_skill, row, job_skills, sim_threshold, fuzzy_threshold) ==
    IF SeqMax(row) >= sim_threshold
    THEN Record(st, [cv_skill |-> cv_skill,
                     job_skill |-> job_skills[ArgMax(row)],
                     similarity |-> SeqMax(row)])
    ELSE FuzzyFallback(st, cv_skill, job_skills,
                       FuzzyScan(cv_skill, job_skills, fuzzy_threshold))

RECURSIVE MatchLoop(_, _, _, _, _, _, _)
MatchLoop(i, st, cv_skills, job_skills, sims, sim_threshold, fuzzy_threshold) ==
    IF i > Len(cv_skills) THEN st
    ELSE MatchLoop(i + 1,
                   MatchStep(st, cv_skills[i], sims[i], job_skills,
                             sim_threshold, fuzzy_threshold),
                   cv_skills, job_skills, sims, sim_threshold, fuzzy_threshold)

MatchScoreMutant(n_matched, n_job) == IF n_job > 0 THEN n_matched * 10000 ELSE 0

MatchScore(n_matched, n_job) == IF n_job > 0 THEN Round2(n_matched, n_job) ELSE 0

\* the dictionary returned at the end of match_skills
MatchResult(st, job_skills) ==
    [match_score |-> MatchScore(Len(st.matched), Len(job_skills)),
     matched_skills |-> st.matched,
     missing_skills |-> st.missing,
     extra_skills |-> st.extra]

\* match_skills past the embedding check
MatchEncoded(cv_skills, job_skills, cv_embeddings, job_embeddings, sim_threshold, fuzzy_threshold) ==
    IF cv_embeddings = <<>> \/ job_embeddings = <<>>
    THEN Degenerate(cv_skills, job_skills)
    ELSE MatchResult(
            MatchLoop(1,
                [matched |-> <<>>, missing |-> job_skills, extra |-> cv_skills],
                cv_skills, job_skills,
                cosine_similarity(cv_embeddings, job_embeddings),
                sim_threshold, fuzzy_threshold),
            job_skills)

match_skills(cv_skills, job_skills, model, cv_ok, job_ok, sim_threshold, fuzzy_threshold) ==
    IF cv_skills = <<>> \/ job_skills = <<>>
    THEN Degenerate(cv_skills, job_skills)
    ELSE MatchEncoded(cv_skills, job_skills,
                      compute_embeddings(cv_skills, model, cv_ok),
                      compute_embeddings(job_skills, model, job_ok),
                      sim_threshold, fuzzy_threshold)

(***************************************************************************)
(* str.strip() and str.split(",")                                          *)
(***************************************************************************)
RECURSIVE LStripChars(_)
LStripChars(cs) ==
    IF cs # <<>> /\ Head(cs) = " " THEN LStripChars(Tail(cs)) ELSE cs

RECURSIVE RStripChars(_)
RStripChars(cs) ==
    IF cs # <<>> /\ cs[Len(cs)] = " "
    THEN RStripChars(SubSeq(cs, 1, Len(cs) - 1))
    ELSE cs

\* lstrip, rstrip and strip of each string, computed once
Stripped ==
    [s \in Strings |->
        [lstrip |-> StrOf(LStripChars(Chars(s))),
         rstrip |-> StrOf(RStripChars(Chars(s))),
         strip |-> StrOf(LStripChars(RStripChars(Chars(s))))]]

LStrip(s) == Stripped[s].lstrip

RStrip(s) == Stripped[s].rstrip

Strip(s) == Stripped[s].strip

\* text.strip() of a text given by its segments between commas: the first
\* segment loses its leading blanks and the last its trailing ones
StripText(segments) ==
    [i \in DOMAIN segments |->
        IF i = 1 /\ i = Len(segments) THEN Strip(segments[i])
        ELSE IF i = 1 THEN LStrip(segments[i])
        ELSE IF i = Len(segments) THEN RStrip(segments[i])
        ELSE segments[i]]

\* "": the text with one empty segment
EmptyText == <<"">>

NonEmpty(s) == s # ""

\* [s.strip() for s in skill_summary.split(",") if s.strip()]
RawSkills(skill_summary) ==
    SelectSeq([i \in DOMAIN skill_summary |-> Strip(skill_summary[i])], NonEmpty)

\* summarize_job_description / summarize_cv: response.text.strip(), or ""
\* when the call to the generative model raises
SummarizeMutant(response) == StripText(response.segments)

Summarize(response) ==
    IF response.raised THEN EmptyText ELSE StripText(response.segments)

(***************************************************************************)
(* The taxonomy, its embeddings and the persisted matrix                   *)
(***************************************************************************)
EntrySQL == [skill |-> "SQL", description |-> "Query relational databases using SQL."]
EntrySqls == [skill |-> "Sqls", description |-> "Sqls"]

Taxonomies == {<<EntrySQL, EntrySqls, EntrySQL>>, <<EntrySqls, EntrySQL>>}

\* records a taxonomy file may hold besides: one with an empty name and one
\* without a name
EntryEmptyName == [skill |-> "", description |-> "Sqls"]
EntryNoName == [description |-> "Sqls"]

Records == {EntrySQL, EntrySqls, EntryEmptyName, EntryNoName}

\* data/esco_skills.json: absent, not readable as JSON, or a list of records
NoJson == [kind |-> "absent", records |-> <<>>]
BadJson == [kind |-> "unreadable", records |-> <<>>]
Json(records) == [kind |-> "json", records |-> records]

EscoFiles ==
    {NoJson, BadJson} \cup {Json(records) : records \in SeqsUpTo(Records, MaxRecords)}

\* the built-in subset
DefaultTaxonomy ==
    << [skill |-> "Python programming", description |-> "Write and debug code in Python."],
       [skill |-> "SQL", description |-> "Query relational databases using SQL."],
       [skill |-> "Communication", description |-> "Effective verbal and written communication."],
       [skill |-> "Problem-solving", description |-> "Analyze and resolve complex issues."],
       [skill |-> "Agile methodologies", description |-> "Experience with Agile processes."] >>

\* load_esco_skills of extract_skills and extract_cv_skills: what json.load
\* gives, the built-in subset when the file is absent or json.load raises
load_esco_skillsMutant(file) == file.records

load_esco_skills(file) ==
    IF file.kind = "json" THEN file.records ELSE DefaultTaxonomy

\* embedder.encode of skill["skill"] + ": " + skill["description"]
EntryVector(entry) == IF entry.skill = "SQL" THEN "u" ELSE "w"

\* get_embeddings: np.vstack of the batches, np.array([]) (here <<>>) for no
\* texts or when encode raises; the lists of this model fit one batch
get_embeddings(vectors, ok) == IF ok THEN vectors ELSE <<>>

\* data/esco_embeddings.npy: absent, unreadable, or an array of rows
Absent == [kind |-> "absent", rows |-> <<>>]
Corrupt == [kind |-> "corrupt", rows |-> <<>>]
Array(rows) == [kind |-> "array", rows |-> rows]

TaxonomyVectors(esco_skills) == [i \in DOMAIN esco_skills |-> EntryVector(esco_skills[i])]

\* the states the persisted file can be in when the process starts: in step
\* with the taxonomy, or written for a longer or a shorter one
Files(esco_skills) ==
    {Absent, Corrupt,
     Array(TaxonomyVectors(esco_skills)),
     Array(Append(TaxonomyVectors(esco_skills), "v")),
     Array(SubSeq(TaxonomyVectors(esco_skills), 1, Len(esco_skills) - 1))}

\* load_precomputed_embeddings: the array, or the empty array
load_precomputed_embeddings(file) == IF file.kind = "array" THEN file.rows ELSE <<>>

\* the file after load_precomputed_embeddings: os.remove of an unreadable
\* file, unless os.remove raises too
FileAfterLoad(file, removed) == IF file.kind = "corrupt" /\ removed THEN Absent ELSE file

(***************************************************************************)
(* rapidfuzz process.extractOne(query, choices, scorer=fuzz.WRatio). For    *)
(* one-word strings of similar length WRatio is the Indel ratio; the        *)
(* processor is None from rapidfuzz 3 on and lowercases before that.        *)
(***************************************************************************)
Processors == {"None", "default_process"}

Processed(s, processor) == IF processor = "None" THEN Chars(s) ELSE Lower(s)

\* the scores of every pair of strings, computed once
WRatios ==
    [processor \in Processors |->
        [a \in Strings, b \in Strings |->
            FuzzRatio(Processed(a, processor), Processed(b, processor))]]

WRatio(a, b, processor) == WRatios[processor][a, b]

\* the index of the best choice, the first of them on equal scores
ExtractOneIndexMutant(query, choices, processor) ==
    CHOOSE j \in DOMAIN choices : \A k \in DOMAIN choices : j <= k

ExtractOneIndex(query, choices, processor) ==
    CHOOSE j \in DOMAIN choices :
        /\ \A k \in DOMAIN choices :
              WRatio(query, choices[k], processor) <= WRatio(query, choices[j], processor)
        /\ \A k \in 1..(j - 1) :
              WRatio(query, choices[k], processor) < WRatio(query, choices[j], processor)

\* (choice, score) of the best choice, None for no choices
ExtractOne(query, choices, processor) ==
    IF choices = <<>> THEN None
    ELSE {<<choices[ExtractOneIndex(query, choices, processor)],
            WRatio(query, choices[ExtractOneIndex(query, choices, processor)], processor)>>}

(***************************************************************************)
(* The standardizer: extract_skills, extract_cv_skills and                 *)
(* extract_cv_skills_from_text share this body                             *)
(***************************************************************************)
TOP_N == 3

\* np.argsort puts index a before index b; equal values keep their order
\* under a stable sort and are reversed under the other outcome modelled
Before(row, a, b, stable) ==
    \/ row[a] < row[b]
    \/ row[a] = row[b] /\ (IF stable THEN a < b ELSE a > b)

\* np.argsort(skill_similarities)[-TOP_N:][::-1], as a set
TopIndices(row, stable) ==
    {a \in DOMAIN row :
        Cardinality({b \in DOMAIN row : Before(row, a, b, stable)}) < TOP_N}

\* top_indices[0]
TopIdx(row, stable) ==
    CHOOSE a \in DOMAIN row : \A b \in DOMAIN row \ {a} : Before(row, b, a, stable)

\* if skill_similarities[top_idx] >= SIMILARITY_THRESHOLD
EmbeddingWinsMutant(similarity, sim_threshold) == similarity > sim_threshold

EmbeddingWins(similarity, sim_threshold) == similarity >= sim_threshold

\* the else branch: what the fuzzy fallback makes of extractOne's answer
FuzzyDecision(phrase, row, top_idx, processor, fuzzy_match, fuzzy_threshold) ==
    [phrase |-> phrase, similarities |-> row, top_idx |-> top_idx,
     processor |-> {processor},
     stage |-> IF ~IsNone(fuzzy_match) /\ Value(fuzzy_match)[2] >= fuzzy_threshold * 100
               THEN "fuzzy" ELSE "none",
     skill |-> IF ~IsNone(fuzzy_match) /\ Value(fuzzy_match)[2] >= fuzzy_threshold * 100
               THEN Value(fuzzy_match)[1] ELSE "",
     extractOne |-> {fuzzy_match}]

\* one iteration of the loop over similarities, past the logging of the
\* top matches: what the standardizer decides for one raw phrase
Decide(phrase, row, top_idx, esco_skills, processor, sim_threshold, fuzzy_threshold) ==
    IF EmbeddingWins(row[top_idx], sim_threshold)
    THEN [phrase |-> phrase, similarities |-> row, top_idx |-> top_idx,
          processor |-> {},
          stage |-> "embedding", skill |-> esco_skills[top_idx].skill,
          extractOne |-> {}]
    ELSE FuzzyDecision(phrase, row, top_idx, processor,
            ExtractOne(phrase, [i \in DOMAIN esco_skills |-> esco_skills[i].skill],
                       processor),
            fuzzy_threshold)

\* the loop over similarities; esco_skills[idx] raises IndexError for a row
\* of the matrix past the end of the taxonomy
RECURSIVE StandardizeLoop(_, _, _, _, _, _, _, _, _)
StandardizeLoop(i, log, raw_skills, similarities, esco_skills, stable, processor, sim_threshold, fuzzy_threshold) ==
    IF i > Len(similarities) THEN [kind |-> "done", log |-> log]
    ELSE IF ~(TopIndices(similarities[i], stable) \subseteq DOMAIN esco_skills)
    THEN [kind |-> "raised", log |-> log]
    ELSE StandardizeLoop(i + 1,
            Append(log, Decide(raw_skills[i], similarities[i],
                               TopIdx(similarities[i], stable), esco_skills,
                               processor, sim_threshold, fuzzy_threshold)),
            raw_skills, similarities, esco_skills, stable, processor,
            sim_threshold, fuzzy_threshold)

\* from the embeddings of the raw phrases on; cosine_similarity raises
\* ValueError for the empty array
StandardizeEncoded(raw_skills, raw_skill_embeddings, esco_embeddings, esco_skills, stable, processor, sim_threshold, fuzzy_threshold) ==
    IF raw_skill_embeddings = <<>>
    THEN [kind |-> "raised", log |-> <<>>]
    ELSE StandardizeLoop(1, <<>>, raw_skills,
            cosine_similarity(raw_skill_embeddings, esco_embeddings),
            esco_skills, stable, processor, sim_threshold, fuzzy_threshold)

\* esco_embeddings: the loaded array, else the taxonomy encoded now
EscoEmbeddings(loaded, esco_skills, esco_ok) ==
    IF loaded # <<>> THEN loaded
    ELSE get_embeddings(TaxonomyVectors(esco_skills), esco_ok)

\* the body of the three extraction functions from skill_summary on.
\* env: what the collaborators do during the call
Standardize(skill_summary, esco_skills, file, env, sim_threshold, fuzzy_threshold) ==
    IF skill_summary = EmptyText
    THEN [kind |-> "empty", log |-> <<>>]
    ELSE IF EscoEmbeddings(load_precomputed_embeddings(file), esco_skills, env.esco_ok) = <<>>
    THEN [kind |-> "no_embeddings", log |-> <<>>]
    ELSE StandardizeEncoded(
            RawSkills(skill_summary),
            get_embeddings([i \in DOMAIN RawSkills(skill_summary) |->
                               env.embedder[RawSkills(skill_summary)[i]]],
                           env.raw_ok),
            EscoEmbeddings(load_precomputed_embeddings(file), esco_skills, env.esco_ok),
            esco_skills, env.stable, env.processor, sim_threshold, fuzzy_threshold)

\* standardized_skills: the names appended, in order
StandardizedSkills(log) ==
    LET Resolved(entry) == entry.stage # "none"
    IN  [i \in DOMAIN SelectSeq(log, Resolved) |-> SelectSeq(log, Resolved)[i].skill]

\* list(set(l)): the distinct elements of l, in the order the set yields
ListSet(l) ==
    {r \in SeqsUpTo(Range(l), Cardinality(Range(l))) :
        Len(r) = Cardinality(Range(l)) /\ Range(r) = Range(l)}

\* the dictionaries the return statements can build; none when the call
\* raises
ReturnValuesMutant(outcome, raw_skills) ==
    CASE outcome.kind = "empty" -> {[standardized |-> <<>>, raw |-> <<>>]}
      [] outcome.kind = "no_embeddings" -> {[standardized |-> <<>>, raw |-> raw_skills]}
      [] outcome.kind = "done" ->
            {[standardized |-> StandardizedSkills(outcome.log), raw |-> r] :
                r \in ListSet(raw_skills)}
      [] outcome.kind = "raised" -> {}

ReturnValues(outcome, raw_skills) ==
    CASE outcome.kind = "empty" -> {[standardized |-> <<>>, raw |-> <<>>]}
      [] outcome.kind = "no_embeddings" -> {[standardized |-> <<>>, raw |-> raw_skills]}
      [] outcome.kind = "done" ->
            {[standardized |-> st, raw |-> r] :
                st \in ListSet(StandardizedSkills(outcome.log)),
                r \in ListSet(raw_skills)}
      [] outcome.kind = "raised" -> {}

(***************************************************************************)
(* State                                                                   *)
(***************************************************************************)
(***************************************************************************)
(* extract_skills.get_embeddings, batch by batch. raises holds the numbers *)
(* of the batches for which embedder.encode raises.                        *)
(***************************************************************************)
\* the except branch: `return np.array([])`
OnBatchErrorMutant(embeddings) == embeddings

OnBatchError(embeddings) == <<>>

\* the loop over range(0, len(texts), batch_size), from the text at i on
RECURSIVE EncodeBatches(_, _, _, _, _, _)
EncodeBatches(i, texts, embedder, batch_size, raises, embeddings) ==
    IF i > Len(texts) THEN embeddings
    ELSE IF ((i - 1) \div batch_size) + 1 \in raises THEN OnBatchError(embeddings)
    ELSE EncodeBatches(i + batch_size, texts, embedder, batch_size, raises,
            embeddings \o [k \in 1..(IF i + batch_size - 1 <= Len(texts)
                                      THEN batch_size ELSE Len(texts) - i + 1)
                              |-> embedder[texts[i + k - 1]]])

\* get_embeddings(texts, embedder, batch_size): np.vstack of the batches
GetEmbeddings(texts, embedder, batch_size, raises) ==
    EncodeBatches(1, texts, embedder, batch_size, raises, <<>>)

\* the embedders of this function's callers: one that tells the names
\* apart and one that does not
BatchEmbedders ==
    {[n \in Names |-> CASE n = "sql" -> "u" [] n = "Sqls" -> "v" [] OTHER -> "w"],
     [n \in Names |-> "u"]}

\* ceil(len(texts) / batch_size)
Batches(texts, batch_size) == (Len(texts) + batch_size - 1) \div batch_size

\* the calls of get_embeddings: any texts, a batch size, and either every
\* batch encoded or one batch at which encode raises
BatchCalls ==
    {[pc |-> "called", texts |-> t, embedder |-> e, batch_size |-> b,
      raises |-> r, result |-> <<>>] :
        t \in SeqsUpTo(Names, MaxTexts), e \in BatchEmbedders,
        b \in 1..MaxBatch, r \in {{}} \cup {{n} : n \in 1..MaxTexts}}

(***************************************************************************)
(* HRAssistant._classify_intent (hr_assistant.py) and its copy in          *)
(* EnhancedHRAssistant (chat.py). A text is the sequence of its            *)
(* characters; the table lists each phrase word by word, in the order of   *)
(* the dictionary literal.                                                 *)
(***************************************************************************)
intent_patterns ==
    <<
      [intent |-> "posted_jobs", patterns |-> <<
          \* 'posted jobs'
          <<<<"p", "o", "s", "t", "e", "d">>, <<"j", "o", "b", "s">>>>,
          \* 'my jobs'
          <<<<"m", "y">>, <<"j", "o", "b", "s">>>>,
          \* 'what jobs'
          <<<<"w", "h", "a", "t">>, <<"j", "o", "b", "s">>>>,
          \* 'jobs posted'
          <<<<"j", "o", "b", "s">>, <<"p", "o", "s", "t", "e", "d">>>>,
          \* 'job postings'
          <<<<"j", "o", "b">>, <<"p", "o", "s", "t", "i", "n", "g", "s">>>>,
          \* 'jobs i posted'
          <<<<"j", "o", "b", "s">>, <<"i">>, <<"p", "o", "s", "t", "e", "d">>>>,
          \* 'show jobs'
          <<<<"s", "h", "o", "w">>, <<"j", "o", "b", "s">>>>,
          \* 'list jobs'
          <<<<"l", "i", "s", "t">>, <<"j", "o", "b", "s">>>>,
          \* 'available jobs'
          <<<<"a", "v", "a", "i", "l", "a", "b", "l", "e">>, <<"j", "o", "b", "s">>>>
      >>],
      [intent |-> "show_scores", patterns |-> <<
          \* 'score'
          <<<<"s", "c", "o", "r", "e">>>>,
          \* 'scores'
          <<<<"s", "c", "o", "r", "e", "s">>>>,
          \* 'applicant score'
          <<<<"a", "p", "p", "l", "i", "c", "a", "n", "t">>, <<"s", "c", "o", "r", "e">>>>,
          \* 'candidate score'
          <<<<"c", "a", "n", "d", "i", "d", "a", "t", "e">>, <<"s", "c", "o", "r", "e">>>>,
          \* 'application score'
          <<<<"a", "p", "p", "l", "i", "c", "a", "t", "i", "o", "n">>, <<"s", "c", "o", "r", "e">>>>,
          \* 'match score'
          <<<<"m", "a", "t", "c", "h">>, <<"s", "c", "o", "r", "e">>>>,
          \* 'rating'
          <<<<"r", "a", "t", "i", "n", "g">>>>,
          \* 'ratings'
          <<<<"r", "a", "t", "i", "n", "g", "s">>>>,
          \* 'show scores'
          <<<<"s", "h", "o", "w">>, <<"s", "c", "o", "r", "e", "s">>>>,
          \* 'all scores'
          <<<<"a", "l", "l">>, <<"s", "c", "o", "r", "e", "s">>>>
      >>],
      [intent |-> "highest_scorer", patterns |-> <<
          \* 'highest score'
          <<<<"h", "i", "g", "h", "e", "s", "t">>, <<"s", "c", "o", "r", "e">>>>,
          \* 'best score'
          <<<<"b", "e", "s", "t">>, <<"s", "c", "o", "r", "e">>>>,
          \* 'top score'
          <<<<"t", "o", "p">>, <<"s", "c", "o", "r", "e">>>>,
          \* 'highest scorer'
          <<<<"h", "i", "g", "h", "e", "s", "t">>, <<"s", "c", "o", "r", "e", "r">>>>,
          \* 'best scorer'
          <<<<"b", "e", "s", "t">>, <<"s", "c", "o", "r", "e", "r">>>>,
          \* 'who scored highest'
          <<<<"w", "h", "o">>, <<"s", "c", "o", "r", "e", "d">>, <<"h", "i", "g", "h", "e", "s", "t">>>>,
          \* 'highest scoring'
          <<<<"h", "i", "g", "h", "e", "s", "t">>, <<"s", "c", "o", "r", "i", "n", "g">>>>,
          \* 'maximum score'
          <<<<"m", "a", "x", "i", "m", "u", "m">>, <<"s", "c", "o", "r", "e">>>>,
          \* 'top scorer'
          <<<<"t", "o", "p">>, <<"s", "c", "o", "r", "e", "r">>>>
      >>],
      [intent |-> "best_candidate", patterns |-> <<
          \* 'best candidate'
          <<<<"b", "e", "s", "t">>, <<"c", "a", "n", "d", "i", "d", "a", "t", "e">>>>,
          \* 'best one'
          <<<<"b", "e", "s", "t">>, <<"o", "n", "e">>>>,
          \* 'who is the best'
          <<<<"w", "h", "o">>, <<"i", "s">>, <<"t", "h", "e">>, <<"b", "e", "s", "t">>>>,
          \* 'best applicant'
          <<<<"b", "e", "s", "t">>, <<"a", "p", "p", "l", "i", "c", "a", "n", "t">>>>,
          \* 'top candidate'
          <<<<"t", "o", "p">>, <<"c", "a", "n", "d", "i", "d", "a", "t", "e">>>>,
          \* 'recommended candidate'
          <<<<"r", "e", "c", "o", "m", "m", "e", "n", "d", "e", "d">>, <<"c", "a", "n", "d", "i", "d", "a", "t", "e">>>>,
          \* 'who should i hire'
          <<<<"w", "h", "o">>, <<"s", "h", "o", "u", "l", "d">>, <<"i">>, <<"h", "i", "r", "e">>>>,
          \* 'best person'
          <<<<"b", "e", "s", "t">>, <<"p", "e", "r", "s", "o", "n">>>>,
          \* 'strongest candidate'
          <<<<"s", "t", "r", "o", "n", "g", "e", "s", "t">>, <<"c", "a", "n", "d", "i", "d", "a", "t", "e">>>>
      >>],
      [intent |-> "compare_candidates", patterns |-> <<
          \* 'compare'
          <<<<"c", "o", "m", "p", "a", "r", "e">>>>,
          \* 'comparison'
          <<<<"c", "o", "m", "p", "a", "r", "i", "s", "o", "n">>>>,
          \* 'compare candidates'
          <<<<"c", "o", "m", "p", "a", "r", "e">>, <<"c", "a", "n", "d", "i", "d", "a", "t", "e", "s">>>>,
          \* 'candidate comparison'
          <<<<"c", "a", "n", "d", "i", "d", "a", "t", "e">>, <<"c", "o", "m", "p", "a", "r", "i", "s", "o", "n">>>>,
          \* 'vs'
          <<<<"v", "s">>>>,
          \* 'versus'
          <<<<"v", "e", "r", "s", "u", "s">>>>,
          \* 'difference between'
          <<<<"d", "i", "f", "f", "e", "r", "e", "n", "c", "e">>, <<"b", "e", "t", "w", "e", "e", "n">>>>
      >>],
      [intent |-> "who_applied", patterns |-> <<
          \* 'who applied'
          <<<<"w", "h", "o">>, <<"a", "p", "p", "l", "i", "e", "d">>>>,
          \* 'applicants for'
          <<<<"a", "p", "p", "l", "i", "c", "a", "n", "t", "s">>, <<"f", "o", "r">>>>,
          \* 'candidates for'
          <<<<"c", "a", "n", "d", "i", "d", "a", "t", "e", "s">>, <<"f", "o", "r">>>>,
          \* 'applications for'
          <<<<"a", "p", "p", "l", "i", "c", "a", "t", "i", "o", "n", "s">>, <<"f", "o", "r">>>>,
          \* 'who applied for'
          <<<<"w", "h", "o">>, <<"a", "p", "p", "l", "i", "e", "d">>, <<"f", "o", "r">>>>,
          \* 'list applicants'
          <<<<"l", "i", "s", "t">>, <<"a", "p", "p", "l", "i", "c", "a", "n", "t", "s">>>>,
          \* 'show applicants'
          <<<<"s", "h", "o", "w">>, <<"a", "p", "p", "l", "i", "c", "a", "n", "t", "s">>>>
      >>],
      [intent |-> "interview_questions", patterns |-> <<
          \* 'interview question'
          <<<<"i", "n", "t", "e", "r", "v", "i", "e", "w">>, <<"q", "u", "e", "s", "t", "i", "o", "n">>>>,
          \* 'interview questions'
          <<<<"i", "n", "t", "e", "r", "v", "i", "e", "w">>, <<"q", "u", "e", "s", "t", "i", "o", "n", "s">>>>,
          \* 'questions for interview'
          <<<<"q", "u", "e", "s", "t", "i", "o", "n", "s">>, <<"f", "o", "r">>, <<"i", "n", "t", "e", "r", "v", "i", "e", "w">>>>,
          \* 'what to ask'
          <<<<"w", "h", "a", "t">>, <<"t", "o">>, <<"a", "s", "k">>>>,
          \* 'generate questions'
          <<<<"g", "e", "n", "e", "r", "a", "t", "e">>, <<"q", "u", "e", "s", "t", "i", "o", "n", "s">>>>
      >>],
      [intent |-> "hiring_summary", patterns |-> <<
          \* 'summary'
          <<<<"s", "u", "m", "m", "a", "r", "y">>>>,
          \* 'overview'
          <<<<"o", "v", "e", "r", "v", "i", "e", "w">>>>,
          \* 'hiring summary'
          <<<<"h", "i", "r", "i", "n", "g">>, <<"s", "u", "m", "m", "a", "r", "y">>>>,
          \* 'status'
          <<<<"s", "t", "a", "t", "u", "s">>>>,
          \* 'report'
          <<<<"r", "e", "p", "o", "r", "t">>>>,
          \* 'statistics'
          <<<<"s", "t", "a", "t", "i", "s", "t", "i", "c", "s">>>>,
          \* 'stats'
          <<<<"s", "t", "a", "t", "s">>>>,
          \* 'total'
          <<<<"t", "o", "t", "a", "l">>>>
      >>]
    >>

\* " ".join(words): the phrase as written in the table
RECURSIVE Join(_)
Join(words) ==
    IF Len(words) = 1 THEN words[1]
    ELSE words[1] \o <<" ">> \o Join(Tail(words))

\* `pattern in message_lower`
Contains(pattern, message) ==
    \E i \in 1..(Len(message) - Len(pattern) + 1) :
        SubSeq(message, i, i + Len(pattern) - 1) = pattern

\* re.sub(r'\s+', ' ', ...) on a stripped text
RECURSIVE CollapseSpaces(_)
CollapseSpaces(cs) ==
    IF Len(cs) < 2 THEN cs
    ELSE IF cs[1] = " " /\ cs[2] = " " THEN CollapseSpaces(Tail(cs))
    ELSE <<cs[1]>> \o CollapseSpaces(Tail(cs))

\* message_lower as the two loops see it
MessageLower(message) ==
    CollapseSpaces(RStripChars(LStripChars(
        [i \in DOMAIN message |-> LowerChar(message[i])])))

\* the first intent of the table with a phrase inside the text; failing
\* that, the first with a phrase of several words all inside the text;
\* failing that, 'general'
ClassifyLoops(exact, partial) ==
    IF exact # {} THEN intent_patterns[CHOOSE k \in exact : \A l \in exact : k <= l].intent
    ELSE IF partial # {}
    THEN intent_patterns[CHOOSE k \in partial : \A l \in partial : k <= l].intent
    ELSE "general"

classify_intent(message) ==
    ClassifyLoops(
        {k \in DOMAIN intent_patterns :
            \E p \in DOMAIN intent_patterns[k].patterns :
                Contains(Join(intent_patterns[k].patterns[p]), MessageLower(message))},
        {k \in DOMAIN intent_patterns :
            \E p \in DOMAIN intent_patterns[k].patterns :
                /\ Len(intent_patterns[k].patterns[p]) > 1
                /\ \A w \in DOMAIN intent_patterns[k].patterns[p] :
                      Contains(intent_patterns[k].patterns[p][w], MessageLower(message))})

\* the messages of this model: each phrase of the table as it is written,
\* with spaces around it, with a capital S, and said twice
Messages ==
    UNION {{Join(q),
            <<" ">> \o Join(q) \o <<" ", " ">>,
            IF Head(Join(q)) = "s" THEN <<"S">> \o Tail(Join(q)) ELSE Join(q),
            Join(q) \o <<" ", " ">> \o Join(q)} :
           q \in UNION {Range(intent_patterns[k].patterns) : k \in DOMAIN intent_patterns}}

(***************************************************************************)
(* API.load_models_if_needed: the two model globals                         *)
(***************************************************************************)
EMBEDDER_MODEL == "sentence-transformers/all-MiniLM-L6-v2"

\* the module globals before the first request, with nothing loaded yet
NotLoaded ==
    [embedder |-> None, sentence_transformer_model |-> None,
     taxonomy_loads |-> 0, model_loads |-> 0, running |-> TRUE]

\* load_embedder() returning a SentenceTransformer; when the constructor
\* raises it calls sys.exit(1), which `except Exception` does not catch
LoadEmbedder(g, taxonomy_loads, embedder_ok) ==
    IF ~IsNone(g.embedder) THEN [g EXCEPT !.taxonomy_loads = taxonomy_loads]
    ELSE IF embedder_ok
    THEN [g EXCEPT !.taxonomy_loads = taxonomy_loads,
                   !.embedder = {EMBEDDER_MODEL},
                   !.model_loads = g.model_loads + 1]
    ELSE [g EXCEPT !.taxonomy_loads = taxonomy_loads, !.running = FALSE]

\* sentence_transformer_model = SentenceTransformer(...), None when it raises
LoadSentenceTransformer(g, model_ok) ==
    IF ~g.running \/ ~IsNone(g.sentence_transformer_model) THEN g
    ELSE IF model_ok
    THEN [g EXCEPT !.sentence_transformer_model = {EMBEDDER_MODEL},
                   !.model_loads = g.model_loads + 1]
    ELSE g

\* the three `is None` tests of load_models_if_needed, as to the models and
\* to how often the taxonomy file and the pretrained model have been loaded
load_models(g, taxonomy_loaded, embedder_ok, model_ok) ==
    LoadSentenceTransformer(
        LoadEmbedder(g, IF taxonomy_loaded THEN g.taxonomy_loads
                        ELSE g.taxonomy_loads + 1, embedder_ok),
        model_ok)

VARIABLES
    match_SIMILARITY_THRESHOLD, \* match_skills.SIMILARITY_THRESHOLD
    match_FUZZY_THRESHOLD,      \* match_skills.FUZZY_THRESHOLD
    m_pc,                       \* POST /match-skills: "idle", "received", "returned"
    m_cv, m_job,                \* request.cv_skills, request.job_skills
    m_override,                 \* request.similarity_threshold, .fuzzy_threshold
    m_ok,                       \* whether model.encode returned, per list
    m_similarity_matrix,        \* similarity_matrix, <<>> if never computed
    m_sim, m_fuzzy,             \* the thresholds in force during the call
    m_result,                   \* what match_skills returned
    a_pc,                       \* POST /jobs/{job_id}/apply: "idle", "received"
    a_sim, a_fuzzy,             \* the thresholds in force during its match_skills call
    extract_SIMILARITY_THRESHOLD, \* extract_skills.SIMILARITY_THRESHOLD
    extract_FUZZY_THRESHOLD,    \* extract_skills.FUZZY_THRESHOLD
    cv_SIMILARITY_THRESHOLD,    \* extract_cv_skills.SIMILARITY_THRESHOLD
    cv_FUZZY_THRESHOLD,         \* extract_cv_skills.FUZZY_THRESHOLD
    esco_file,                  \* what data/esco_skills.json holds
    esco_skills,                \* API.esco_skills, None until loaded
    emb_file,                   \* data/esco_embeddings.npy
    x_pc,                       \* an extraction request: "idle", "received", "returned"
    x_endpoint,                 \* "job": /extract-job-skills, "cv": /extract-cv-skills-text
    x_response,                 \* what the generative model answers
    x_override,                 \* request.similarity_threshold, .fuzzy_threshold
    x_sim, x_fuzzy,             \* the thresholds in force during the call
    x_raw_skills,               \* raw_skills
    x_outcome,                  \* how the call ended, and what the loop decided
    x_encode,                   \* what embedder.encode did for the taxonomy and the phrases
    esco_encoded,               \* the taxonomy has been encoded by a request of this process
    x_result,                   \* the dictionary returned, None when the call raised
    m_first,                    \* an earlier call of match_skills a client kept, None if none
    batch_call,                 \* a call of get_embeddings: arguments, outcome of
                                \* encode, and what it returned
    apply_db,                   \* the applications and skill_matches tables
    apply_calls,                \* per worker process, its POST /jobs/{job_id}/apply
    intent_call,                \* a call of _classify_intent: message and result
    models                      \* API.embedder, API.sentence_transformer_model and
                                \* how often this process has loaded what

mvars == <<match_SIMILARITY_THRESHOLD, match_FUZZY_THRESHOLD,
           m_pc, m_cv, m_job, m_override, m_ok, m_similarity_matrix,
           m_sim, m_fuzzy, m_result, a_pc, a_sim, a_fuzzy>>

xvars == <<extract_SIMILARITY_THRESHOLD, extract_FUZZY_THRESHOLD,
           cv_SIMILARITY_THRESHOLD, cv_FUZZY_THRESHOLD, emb_file,
           x_pc, x_endpoint, x_response, x_override, x_sim, x_fuzzy,
           x_raw_skills, x_outcome, x_result, x_encode, esco_encoded>>

\* what no handler of the model touches
hvars == <<m_first, batch_call, apply_db, apply_calls, intent_call>>

\* what the requests to the other endpoints leave alone
ovars == <<hvars, models>>

vars == <<mvars, xvars, esco_file, esco_skills, ovars>>

\* SkillMatchRequest.similarity_threshold / fuzzy_threshold: None keeps the
\* module's value
SimOverrides == {None, {10}}
FuzzyOverrides == {None, {90}}

EncodeOutcomes == {TRUE, FALSE} \X {TRUE, FALSE}

\* what model.encode may make of the names of one call. When a list is
\* empty or an encode call raises, no similarity is computed and the vectors
\* are immaterial.
Embedders(cv, job, ok) ==
    IF cv # <<>> /\ job # <<>> /\ ok = <<TRUE, TRUE>>
    THEN [Range(cv) \cup Range(job) -> Vectors]
    ELSE {[n \in Range(cv) \cup Range(job) |-> "u"]}

\* similarity_matrix, where match_skills gets to compute it
SimilarityMatrix(cv, job, model, ok) ==
    IF cv # <<>> /\ job # <<>> /\ ok = <<TRUE, TRUE>>
    THEN cosine_similarity(compute_embeddings(cv, model, ok[1]),
                           compute_embeddings(job, model, ok[2]))
    ELSE <<>>

\* no request to /match-skills is being served
MatchIdle ==
    /\ m_pc = "idle"
    /\ m_cv = <<>>
    /\ m_job = <<>>
    /\ m_override = <<None, None>>
    /\ m_ok = <<TRUE, TRUE>>
    /\ m_similarity_matrix = <<>>
    /\ m_sim = match_SIMILARITY_THRESHOLD
    /\ m_fuzzy = match_FUZZY_THRESHOLD
    /\ m_result = Degenerate(<<>>, <<>>)
    /\ a_pc = "idle"
    /\ a_sim = match_SIMILARITY_THRESHOLD
    /\ a_fuzzy = match_FUZZY_THRESHOLD

\* nothing is kept from earlier requests
NoBatchCall ==
    [pc |-> "returned", texts |-> <<>>, embedder |-> [n \in Names |-> "u"],
     batch_size |-> 1, raises |-> {}, result |-> <<>>]

\* the tables after create_tables()
EmptyDb == [applications |-> <<>>, skill_matches |-> {}]

\* a worker process serving no application request; status is that of
\* its last response
IdleCall == [pc |-> "idle", candidate_id |-> 1, job_id |-> 1, status |-> 200]

Quiet ==
    /\ m_first = None
    /\ batch_call = NoBatchCall
    /\ apply_db = EmptyDb
    /\ apply_calls = <<IdleCall>>
    /\ intent_call = [pc |-> "returned", message |-> <<>>, intent |-> "general"]

\* generate_content raises
NoResponse == [answers |-> TRUE, raised |-> TRUE, segments |-> <<>>]

\* generate_content does not come back: the service is silent and the
\* call is made without a timeout of its own
Silent == [answers |-> FALSE, raised |-> FALSE, segments |-> <<>>]

NoOutcome == [kind |-> "empty", log |-> <<>>]

NoEncode == [esco |-> "none", raw |-> "none"]

\* no request to an extraction endpoint is being served
ExtractIdle ==
    /\ x_pc = "idle"
    /\ x_endpoint = "job"
    /\ x_response = NoResponse
    /\ x_override = <<None, None>>
    /\ x_sim = extract_SIMILARITY_THRESHOLD
    /\ x_fuzzy = extract_FUZZY_THRESHOLD
    /\ x_raw_skills = <<>>
    /\ x_outcome = NoOutcome
    /\ x_result = None
    /\ x_encode = NoEncode

\* the thresholds of the three modules as written
ModuleThresholds ==
    /\ match_SIMILARITY_THRESHOLD = 3
    /\ match_FUZZY_THRESHOLD = 80
    /\ extract_SIMILARITY_THRESHOLD = 6
    /\ extract_FUZZY_THRESHOLD = 90
    /\ cv_SIMILARITY_THRESHOLD = 4
    /\ cv_FUZZY_THRESHOLD = 90

\* the modules' globals once imported
Globals ==
    /\ ModuleThresholds
    /\ esco_skills = None
    /\ models = NotLoaded
    /\ esco_encoded = FALSE

\* the service started next to a taxonomy file and no embeddings file
Init ==
    /\ Globals
    /\ MatchIdle
    /\ ExtractIdle
    /\ Quiet
    /\ esco_file = Json(<<EntrySqls, EntrySQL>>)
    /\ emb_file = Absent

\* the service started next to any of the taxonomy files and any of the
\* embeddings files
InitExtract ==
    /\ Globals
    /\ MatchIdle
    /\ ExtractIdle
    /\ Quiet
    /\ esco_file \in {Json(records) : records \in Taxonomies}
    /\ emb_file \in Files(esco_file.records)

\* the service between requests, its taxonomy loaded by an earlier one
InitThresholds ==
    /\ ModuleThresholds
    /\ MatchIdle
    /\ ExtractIdle
    /\ Quiet
    /\ esco_file = Json(<<EntrySqls, EntrySQL>>)
    /\ esco_skills = {load_esco_skills(esco_file)}
    /\ models = load_models(NotLoaded, FALSE, TRUE, TRUE)
    /\ esco_encoded = FALSE
    /\ emb_file = Absent

\* the service started next to any taxonomy file, readable or not
InitLoad ==
    /\ Globals
    /\ MatchIdle
    /\ ExtractIdle
    /\ Quiet
    /\ esco_file \in EscoFiles
    /\ emb_file = Absent

\* load_models_if_needed: esco_skills is read from the file on the first
\* request and kept
load_models_if_needed(loaded, file) ==
    IF IsNone(loaded) THEN {load_esco_skills(file)} ELSE loaded

\* the first call of load_models_if_needed in a process
LoadModels ==
    /\ IsNone(esco_skills)
    /\ esco_skills' = load_models_if_needed(esco_skills, esco_file)
    /\ models' = load_models(models, ~IsNone(esco_skills), TRUE, TRUE)
    /\ UNCHANGED <<mvars, xvars, hvars, esco_file>>

NextLoad == LoadModels

SpecLoad == InitLoad /\ [][NextLoad]_vars

\* any request whose handler calls load_models_if_needed(), as far as the
\* globals of the models go: the taxonomy file is read if esco_skills is
\* None, and each pretrained model is constructed if its global is None
CallLoadModels ==
    /\ models.running
    /\ esco_skills' = load_models_if_needed(esco_skills, esco_file)
    /\ \E embedder_ok, model_ok \in BOOLEAN :
          models' = load_models(models, ~IsNone(esco_skills), embedder_ok, model_ok)
    /\ UNCHANGED <<mvars, xvars, hvars, esco_file>>

NextModels == CallLoadModels

\* get_embeddings called with any texts
InitBatches ==
    /\ Globals
    /\ MatchIdle
    /\ ExtractIdle
    /\ m_first = None
    /\ apply_db = EmptyDb
    /\ apply_calls = <<IdleCall>>
    /\ intent_call = [pc |-> "returned", message |-> <<>>, intent |-> "general"]
    /\ batch_call \in {c \in BatchCalls : c.raises \subseteq 1..Batches(c.texts, c.batch_size)}
    /\ esco_file = Json(<<EntrySqls, EntrySQL>>)
    /\ emb_file = Absent

CallGetEmbeddings ==
    /\ batch_call.pc = "called"
    /\ batch_call' = [batch_call EXCEPT
          !.pc = "returned",
          !.result = GetEmbeddings(batch_call.texts, batch_call.embedder,
                                   batch_call.batch_size, batch_call.raises)]
    /\ UNCHANGED <<mvars, xvars, m_first, apply_db, apply_calls, intent_call, models,
                   esco_file, esco_skills>>

NextBatches == CallGetEmbeddings

SpecBatches == InitBatches /\ [][NextBatches]_vars

(***************************************************************************)
(* POST /jobs/{job_id}/apply against the tables. start_server.py starts    *)
(* WORKERS processes, 1 unless the environment says otherwise; each        *)
(* process runs a handler from its first line to its return before it      *)
(* starts another, and the processes share the database, where their       *)
(* statements take effect one at a time in any order.                      *)
(***************************************************************************)
\* candidate 1 has skills extracted from a CV, candidate 2 has none
Candidates == {1, 2}

\* job posting 1 is active and has extracted skills, job posting 2 is inactive
JobPostings == {1, 2}

\* the service started with any number of workers, the tables empty
InitApply ==
    /\ Globals
    /\ MatchIdle
    /\ ExtractIdle
    /\ m_first = None
    /\ batch_call = NoBatchCall
    /\ intent_call = [pc |-> "returned", message |-> <<>>, intent |-> "general"]
    /\ apply_db = EmptyDb
    /\ apply_calls \in {[w \in 1..n |-> IdleCall] : n \in 1..MaxWorkers}
    /\ esco_file = Json(<<EntrySqls, EntrySQL>>)
    /\ emb_file = Absent

\* db.query(Application).filter(candidate_id == ..., job_posting_id == ...).first()
ExistingApplication(db, candidate_id, job_id) ==
    \E k \in DOMAIN db.applications :
        /\ db.applications[k].candidate_id = candidate_id
        /\ db.applications[k].job_posting_id = job_id

\* a candidate posts an application to the worker w
PostApplyToJob(w) ==
    /\ apply_calls[w].pc = "idle"
    /\ \E c \in Candidates, j \in JobPostings :
          apply_calls' = [apply_calls EXCEPT ![w] =
              [pc |-> "received", candidate_id |-> c, job_id |-> j, status |-> 200]]
    /\ UNCHANGED <<mvars, xvars, m_first, batch_call, apply_db, intent_call, models,
                   esco_file, esco_skills>>

\* apply_to_job up to the insert: the two queries, and the 404 or 400
ApplyToJobQueries(w) ==
    /\ apply_calls[w].pc = "received"
    /\ apply_calls' = [apply_calls EXCEPT ![w] =
          IF apply_calls[w].job_id # 1
          THEN [@ EXCEPT !.pc = "idle", !.status = 404]
          ELSE IF ExistingApplication(apply_db, @.candidate_id, @.job_id)
          THEN [@ EXCEPT !.pc = "idle", !.status = 400]
          ELSE [@ EXCEPT !.pc = "queried"]]
    /\ UNCHANGED <<mvars, xvars, m_first, batch_call, apply_db, intent_call, models,
                   esco_file, esco_skills>>

\* apply_to_job from db.add(application) on: the application is committed,
\* and a skill match too when candidate and job posting have skills
ApplyToJobInsert(w) ==
    /\ apply_calls[w].pc = "queried"
    /\ apply_db' =
          [applications |-> Append(apply_db.applications,
                [candidate_id |-> apply_calls[w].candidate_id,
                 job_posting_id |-> apply_calls[w].job_id]),
           skill_matches |->
                IF apply_calls[w].candidate_id = 1
                THEN apply_db.skill_matches \cup {Len(apply_db.applications) + 1}
                ELSE apply_db.skill_matches]
    /\ apply_calls' = [apply_calls EXCEPT ![w] = [@ EXCEPT !.pc = "idle", !.status = 200]]
    /\ UNCHANGED <<mvars, xvars, m_first, batch_call, intent_call, models,
                   esco_file, esco_skills>>

NextApply ==
    \E w \in DOMAIN apply_calls :
        \/ PostApplyToJob(w)
        \/ ApplyToJobQueries(w)
        \/ ApplyToJobInsert(w)

SpecApply == InitApply /\ [][NextApply]_vars

(***************************************************************************)
(* _classify_intent called with a message                                  *)
(***************************************************************************)
InitIntents ==
    /\ Globals
    /\ MatchIdle
    /\ ExtractIdle
    /\ m_first = None
    /\ batch_call = NoBatchCall
    /\ apply_db = EmptyDb
    /\ apply_calls = <<IdleCall>>
    /\ intent_call \in {[pc |-> "called", message |-> m, intent |-> "general"] :
                            m \in Messages}
    /\ esco_file = Json(<<EntrySqls, EntrySQL>>)
    /\ emb_file = Absent

ClassifyIntent ==
    /\ intent_call.pc = "called"
    /\ intent_call' = [intent_call EXCEPT
          !.pc = "returned", !.intent = classify_intent(intent_call.message)]
    /\ UNCHANGED <<mvars, xvars, m_first, batch_call, apply_db, apply_calls,
                   models, esco_file, esco_skills>>

SpecIntents == InitIntents /\ [][ClassifyIntent]_vars

SpecModels == InitLoad /\ [][NextModels]_vars

\* a client posts a SkillMatchRequest
PostMatchSkills ==
    /\ m_pc = "idle"
    /\ m_pc' = "received"
    /\ m_cv' \in SeqsUpTo(Names, MaxCv)
    /\ m_job' \in SeqsUpTo(Names, MaxJob)
    /\ m_override' \in SimOverrides \X FuzzyOverrides
    /\ UNCHANGED <<match_SIMILARITY_THRESHOLD, match_FUZZY_THRESHOLD,
                   m_ok, m_similarity_matrix, m_sim, m_fuzzy, m_result>>
    /\ UNCHANGED <<a_pc, a_sim, a_fuzzy, xvars, ovars, esco_file, esco_skills>>

\* the threshold match_skills reads while the handler has the request's
\* value, if any, in the module global
InForce(override, original) == IF ~IsNone(override) THEN Value(override) ELSE original

\* the finally block: the module global gets back the value read before
\* the override
RestoreMutant(original, in_force) == in_force

Restore(original, in_force) == original

\* POST /match-skills, the handler: the thresholds of the request replace the
\* module's for the call and are restored in the finally block
ApiMatchSkills ==
    /\ m_pc = "received"
    /\ m_pc' = "returned"
    /\ esco_skills' = load_models_if_needed(esco_skills, esco_file)
    /\ models' = load_models(models, ~IsNone(esco_skills), TRUE, TRUE)
    /\ match_SIMILARITY_THRESHOLD' =
          Restore(match_SIMILARITY_THRESHOLD,
                  InForce(m_override[1], match_SIMILARITY_THRESHOLD))
    /\ match_FUZZY_THRESHOLD' =
          Restore(match_FUZZY_THRESHOLD,
                  InForce(m_override[2], match_FUZZY_THRESHOLD))
    /\ m_sim' = InForce(m_override[1], match_SIMILARITY_THRESHOLD)
    /\ m_fuzzy' = InForce(m_override[2], match_FUZZY_THRESHOLD)
    /\ UNCHANGED <<m_cv, m_job, m_override, a_pc, a_sim, a_fuzzy, xvars, hvars, esco_file>>
    /\ \E ok \in EncodeOutcomes :
         \E model \in Embedders(m_cv, m_job, ok) :
            /\ (m_cv = <<>> \/ m_job = <<>>) => ok = <<TRUE, TRUE>>
            /\ m_ok' = ok
            /\ m_similarity_matrix' = SimilarityMatrix(m_cv, m_job, model, ok)
            /\ m_result' = match_skills(m_cv, m_job, model, ok[1], ok[2],
                                InForce(m_override[1], match_SIMILARITY_THRESHOLD),
                                InForce(m_override[2], match_FUZZY_THRESHOLD))

\* the response is sent; the next request may come
MatchDone ==
    /\ m_pc = "returned"
    /\ m_pc' = "idle"
    /\ m_cv' = <<>>
    /\ m_job' = <<>>
    /\ m_override' = <<None, None>>
    /\ m_ok' = <<TRUE, TRUE>>
    /\ m_similarity_matrix' = <<>>
    /\ m_sim' = match_SIMILARITY_THRESHOLD
    /\ m_fuzzy' = match_FUZZY_THRESHOLD
    /\ m_result' = Degenerate(<<>>, <<>>)
    /\ UNCHANGED <<match_SIMILARITY_THRESHOLD, match_FUZZY_THRESHOLD>>
    /\ UNCHANGED <<a_pc, a_sim, a_fuzzy, xvars, ovars, esco_file, esco_skills>>

Next == PostMatchSkills \/ ApiMatchSkills \/ MatchDone

Spec == Init /\ [][Next]_vars

(***************************************************************************)
(* Requests in flight together: the handlers are coroutines without an     *)
(* await, so the event loop runs each from its first line to its return,   *)
(* in any order                                                            *)
(***************************************************************************)
\* a candidate posts an application
PostApply ==
    /\ a_pc = "idle"
    /\ a_pc' = "received"
    /\ UNCHANGED <<match_SIMILARITY_THRESHOLD, match_FUZZY_THRESHOLD,
                   m_pc, m_cv, m_job, m_override, m_ok, m_similarity_matrix,
                   m_sim, m_fuzzy, m_result, a_sim, a_fuzzy>>
    /\ UNCHANGED <<xvars, ovars, esco_file, esco_skills>>

\* POST /jobs/{job_id}/apply, the handler: match_skills is called without
\* an override and reads the module's thresholds
ApplyToJob ==
    /\ a_pc = "received"
    /\ a_pc' = "idle"
    /\ a_sim' = match_SIMILARITY_THRESHOLD
    /\ a_fuzzy' = match_FUZZY_THRESHOLD
    /\ esco_skills' = load_models_if_needed(esco_skills, esco_file)
    /\ UNCHANGED <<match_SIMILARITY_THRESHOLD, match_FUZZY_THRESHOLD,
                   m_pc, m_cv, m_job, m_override, m_ok, m_similarity_matrix,
                   m_sim, m_fuzzy, m_result>>
    /\ models' = load_models(models, ~IsNone(esco_skills), TRUE, TRUE)
    /\ UNCHANGED <<xvars, hvars, esco_file>>

NextThresholds ==
    \/ PostMatchSkills
    \/ ApiMatchSkills
    \/ MatchDone
    \/ PostApply
    \/ ApplyToJob

SpecThresholds == InitThresholds /\ [][NextThresholds]_vars

(***************************************************************************)
(* Requests that lower the fuzzy threshold, so that several job skills     *)
(* clear it for one candidate skill                                        *)
(***************************************************************************)
LowFuzzyOverrides == {None, {20}}

\* a client posts a SkillMatchRequest with a fuzzy_threshold of its choice
PostLowFuzzy ==
    /\ m_pc = "idle"
    /\ m_pc' = "received"
    /\ m_cv' \in SeqsUpTo(Names, MaxJob)
    /\ m_job' \in SeqsUpTo(Names, MaxJob)
    /\ m_override' \in SimOverrides \X LowFuzzyOverrides
    /\ UNCHANGED <<match_SIMILARITY_THRESHOLD, match_FUZZY_THRESHOLD,
                   m_ok, m_similarity_matrix, m_sim, m_fuzzy, m_result>>
    /\ UNCHANGED <<a_pc, a_sim, a_fuzzy, xvars, ovars, esco_file, esco_skills>>

NextFuzzy == PostLowFuzzy \/ ApiMatchSkills \/ MatchDone

SpecFuzzy == InitThresholds /\ [][NextFuzzy]_vars

(***************************************************************************)
(* The same lists matched again: a client keeps what one call returned and *)
(* posts the lists of that call again, other requests in between           *)
(***************************************************************************)
RerunNames == {"sql", "Sqls"}

\* a client posts a SkillMatchRequest whose lists it will post again
PostRerun ==
    /\ m_pc = "idle"
    /\ IsNone(m_first)
    /\ m_pc' = "received"
    /\ m_cv' \in SeqsUpTo(RerunNames, MaxJob)
    /\ m_job' \in SeqsUpTo(RerunNames, MaxJob)
    /\ m_override' \in SimOverrides \X FuzzyOverrides
    /\ UNCHANGED <<match_SIMILARITY_THRESHOLD, match_FUZZY_THRESHOLD,
                   m_ok, m_similarity_matrix, m_sim, m_fuzzy, m_result>>
    /\ UNCHANGED <<a_pc, a_sim, a_fuzzy, xvars, ovars, esco_file, esco_skills>>

\* the response is sent and the client keeps the call: its lists, the
\* thresholds it asked for and got, the similarities and the result
KeepCall ==
    /\ m_pc = "returned"
    /\ IsNone(m_first)
    /\ m_first' = {[cv_skills |-> m_cv, job_skills |-> m_job,
                    override |-> m_override, sim |-> m_sim, fuzzy |-> m_fuzzy,
                    similarity_matrix |-> m_similarity_matrix,
                    result |-> m_result]}
    /\ m_pc' = "idle"
    /\ m_cv' = <<>>
    /\ m_job' = <<>>
    /\ m_override' = <<None, None>>
    /\ m_ok' = <<TRUE, TRUE>>
    /\ m_similarity_matrix' = <<>>
    /\ m_sim' = match_SIMILARITY_THRESHOLD
    /\ m_fuzzy' = match_FUZZY_THRESHOLD
    /\ m_result' = Degenerate(<<>>, <<>>)
    /\ UNCHANGED <<match_SIMILARITY_THRESHOLD, match_FUZZY_THRESHOLD>>
    /\ UNCHANGED <<a_pc, a_sim, a_fuzzy, xvars, esco_file, esco_skills>>
    /\ UNCHANGED <<batch_call, apply_db, apply_calls, intent_call, models>>

\* the client posts the lists of the kept call again, with any thresholds
Resend ==
    /\ m_pc = "idle"
    /\ ~IsNone(m_first)
    /\ m_pc' = "received"
    /\ m_cv' = Value(m_first).cv_skills
    /\ m_job' = Value(m_first).job_skills
    /\ m_override' \in SimOverrides \X FuzzyOverrides
    /\ UNCHANGED <<match_SIMILARITY_THRESHOLD, match_FUZZY_THRESHOLD,
                   m_ok, m_similarity_matrix, m_sim, m_fuzzy, m_result>>
    /\ UNCHANGED <<a_pc, a_sim, a_fuzzy, xvars, ovars, esco_file, esco_skills>>

NextRerun ==
    \/ PostRerun
    \/ ApiMatchSkills
    \/ MatchDone
    \/ KeepCall
    \/ Resend

SpecRerun == InitThresholds /\ [][NextRerun]_vars

(***************************************************************************)
(* The extraction endpoints                                                *)
(***************************************************************************)
\* what the generative model may answer: the call raises, or a text
Responses ==
    {NoResponse, Silent} \cup
    {[answers |-> TRUE, raised |-> FALSE, segments |-> t] :
        t \in SeqsUpTo(Segments, MaxSegments) \ {<<>>}}

ExtractSimOverrides == {None, {10}}
ExtractFuzzyOverrides == {None, {50}}

\* what the collaborators may do during one call: whether encode returns
\* for the taxonomy and for the phrases, the vectors of the phrases, the
\* order argsort gives equal similarities, rapidfuzz's default processor,
\* and whether os.remove of an unreadable embeddings file succeeds
Collaborators(raw_skills) ==
    [esco_ok : BOOLEAN, raw_ok : BOOLEAN, stable : BOOLEAN,
     processor : Processors, removed : BOOLEAN,
     embedder : [Range(raw_skills) -> Vectors]]

\* a collaborator the call never gets to ask is given one answer
Unasked(env) ==
    /\ env.stable
    /\ env.processor = "None"
    /\ \A phrase \in DOMAIN env.embedder : env.embedder[phrase] = "u"

Environments(skill_summary, file) ==
    {env \in Collaborators(RawSkills(skill_summary)) :
        /\ (skill_summary = EmptyText \/ file.kind # "corrupt") => env.removed
        /\ (skill_summary = EmptyText \/ file.kind = "array") => env.esco_ok
        /\ (skill_summary = EmptyText \/ ~env.esco_ok) => env.raw_ok
        /\ (skill_summary = EmptyText \/ RawSkills(skill_summary) = <<>>) => env.raw_ok
        /\ (skill_summary = EmptyText \/ ~env.esco_ok \/ ~env.raw_ok
              \/ RawSkills(skill_summary) = <<>>) => Unasked(env)}

\* what one call asks of embedder.encode and how that ends: the taxonomy
\* is encoded when no array was loaded, the phrases when there are phrases
\* and taxonomy embeddings
EncodeCalls(skill_summary, taxonomy, file, env) ==
    [esco |-> IF skill_summary = EmptyText \/ load_precomputed_embeddings(file) # <<>>
              THEN "none"
              ELSE IF env.esco_ok THEN "ok" ELSE "raised",
     raw |-> IF \/ skill_summary = EmptyText
                \/ RawSkills(skill_summary) = <<>>
                \/ EscoEmbeddings(load_precomputed_embeddings(file), taxonomy,
                                  env.esco_ok) = <<>>
             THEN "none"
             ELSE IF env.raw_ok THEN "ok" ELSE "raised"]

\* a client posts a JobDescriptionRequest
PostExtractJobSkills ==
    /\ x_pc = "idle"
    /\ x_pc' = "received"
    /\ x_endpoint' = "job"
    /\ x_response' \in Responses
    /\ x_override' \in ExtractSimOverrides \X ExtractFuzzyOverrides
    /\ UNCHANGED <<extract_SIMILARITY_THRESHOLD, extract_FUZZY_THRESHOLD,
                   cv_SIMILARITY_THRESHOLD, cv_FUZZY_THRESHOLD, emb_file,
                   x_sim, x_fuzzy, x_raw_skills, x_outcome, x_result,
                   x_encode, esco_encoded>>
    /\ UNCHANGED <<mvars, ovars, esco_file, esco_skills>>

\* a client posts a CVTextRequest
PostExtractCvSkillsText ==
    /\ x_pc = "idle"
    /\ x_pc' = "received"
    /\ x_endpoint' = "cv"
    /\ x_response' \in Responses
    /\ x_override' \in ExtractSimOverrides \X ExtractFuzzyOverrides
    /\ UNCHANGED <<extract_SIMILARITY_THRESHOLD, extract_FUZZY_THRESHOLD,
                   cv_SIMILARITY_THRESHOLD, cv_FUZZY_THRESHOLD, emb_file,
                   x_sim, x_fuzzy, x_raw_skills, x_outcome, x_result,
                   x_encode, esco_encoded>>
    /\ UNCHANGED <<mvars, ovars, esco_file, esco_skills>>

\* the call of the extraction function inside a handler, under the
\* thresholds in force
Extract(sim_threshold, fuzzy_threshold) ==
    \E env \in Environments(Summarize(x_response), emb_file) :
        /\ x_sim' = sim_threshold
        /\ x_fuzzy' = fuzzy_threshold
        /\ x_raw_skills' = RawSkills(Summarize(x_response))
        /\ x_outcome' = Standardize(Summarize(x_response),
                            Value(load_models_if_needed(esco_skills, esco_file)),
                            emb_file, env, sim_threshold, fuzzy_threshold)
        /\ x_result' \in
              IF x_outcome'.kind = "raised" THEN {None}
              ELSE {{r} : r \in ReturnValues(x_outcome', x_raw_skills')}
        /\ emb_file' = IF Summarize(x_response) = EmptyText THEN emb_file
                       ELSE FileAfterLoad(emb_file, env.removed)
        /\ esco_skills' = load_models_if_needed(esco_skills, esco_file)
        /\ models' = load_models(models, ~IsNone(esco_skills), TRUE, TRUE)
        /\ x_encode' = EncodeCalls(Summarize(x_response),
                           Value(load_models_if_needed(esco_skills, esco_file)),
                           emb_file, env)
        /\ esco_encoded' = (esco_encoded \/ x_encode'.esco = "ok")

\* POST /extract-job-skills, the handler: the thresholds of the request
\* replace extract_skills' for the call and are restored in the finally block
ApiExtractJobSkills ==
    /\ x_pc = "received"
    /\ x_endpoint = "job"
    /\ x_response.answers
    /\ Extract(InForce(x_override[1], extract_SIMILARITY_THRESHOLD),
               InForce(x_override[2], extract_FUZZY_THRESHOLD))
    /\ x_pc' = "returned"
    /\ extract_SIMILARITY_THRESHOLD' =
          Restore(extract_SIMILARITY_THRESHOLD,
                  InForce(x_override[1], extract_SIMILARITY_THRESHOLD))
    /\ extract_FUZZY_THRESHOLD' =
          Restore(extract_FUZZY_THRESHOLD,
                  InForce(x_override[2], extract_FUZZY_THRESHOLD))
    /\ UNCHANGED <<cv_SIMILARITY_THRESHOLD, cv_FUZZY_THRESHOLD,
                   x_endpoint, x_response, x_override>>
    /\ UNCHANGED <<mvars, hvars, esco_file>>

\* POST /extract-cv-skills-text, the handler: the same around
\* extract_cv_skills_from_text and extract_cv_skills' thresholds
ApiExtractCvSkillsText ==
    /\ x_pc = "received"
    /\ x_endpoint = "cv"
    /\ x_response.answers
    /\ Extract(InForce(x_override[1], cv_SIMILARITY_THRESHOLD),
               InForce(x_override[2], cv_FUZZY_THRESHOLD))
    /\ x_pc' = "returned"
    /\ cv_SIMILARITY_THRESHOLD' =
          Restore(cv_SIMILARITY_THRESHOLD,
                  InForce(x_override[1], cv_SIMILARITY_THRESHOLD))
    /\ cv_FUZZY_THRESHOLD' =
          Restore(cv_FUZZY_THRESHOLD,
                  InForce(x_override[2], cv_FUZZY_THRESHOLD))
    /\ UNCHANGED <<extract_SIMILARITY_THRESHOLD, extract_FUZZY_THRESHOLD,
                   x_endpoint, x_response, x_override>>
    /\ UNCHANGED <<mvars, hvars, esco_file>>

\* the response is sent; the next request may come
ExtractDone ==
    /\ x_pc = "returned"
    /\ x_pc' = "idle"
    /\ x_endpoint' = "job"
    /\ x_response' = NoResponse
    /\ x_override' = <<None, None>>
    /\ x_sim' = extract_SIMILARITY_THRESHOLD
    /\ x_fuzzy' = extract_FUZZY_THRESHOLD
    /\ x_raw_skills' = <<>>
    /\ x_outcome' = NoOutcome
    /\ x_result' = None
    /\ x_encode' = NoEncode
    /\ UNCHANGED <<extract_SIMILARITY_THRESHOLD, extract_FUZZY_THRESHOLD,
                   cv_SIMILARITY_THRESHOLD, cv_FUZZY_THRESHOLD, emb_file,
                   esco_encoded>>
    /\ UNCHANGED <<mvars, ovars, esco_file, esco_skills>>

\* run_data_setup, the background task of POST /setup-data: with no
\* embeddings file, generate_embeddings.py encodes the taxonomy file's
\* entries and saves the array, unless it fails
RunDataSetup ==
    /\ emb_file.kind = "absent"
    /\ \E ok \in BOOLEAN :
          emb_file' = IF ok THEN Array(TaxonomyVectors(esco_file.records)) ELSE emb_file
    /\ UNCHANGED <<extract_SIMILARITY_THRESHOLD, extract_FUZZY_THRESHOLD,
                   cv_SIMILARITY_THRESHOLD, cv_FUZZY_THRESHOLD,
                   x_pc, x_endpoint, x_response, x_override, x_sim, x_fuzzy,
                   x_raw_skills, x_outcome, x_result, x_encode, esco_encoded>>
    /\ UNCHANGED <<mvars, ovars, esco_file, esco_skills>>

NextExtract ==
    \/ RunDataSetup
    \/ PostExtractJobSkills
    \/ PostExtractCvSkillsText
    \/ ApiExtractJobSkills
    \/ ApiExtractCvSkillsText
    \/ ExtractDone

SpecExtract == InitExtract /\ [][NextExtract]_vars

\* the event loop runs a handler that can run, and sends what it returned
SpecExtractLive ==
    /\ InitExtract
    /\ [][NextExtract]_vars
    /\ WF_vars(ApiExtractJobSkills)
    /\ WF_vars(ApiExtractCvSkillsText)
    /\ WF_vars(ExtractDone)

(***************************************************************************)
(* Requests to the three endpoints that set thresholds, one after another: *)
(* a request is posted when no other is being served                       *)
(***************************************************************************)
NextSequence ==
    \/ x_pc = "idle" /\ PostRerun
    \/ x_pc = "idle" /\ ApiMatchSkills
    \/ x_pc = "idle" /\ MatchDone
    \/ m_pc = "idle" /\ PostExtractJobSkills
    \/ m_pc = "idle" /\ PostExtractCvSkillsText
    \/ m_pc = "idle" /\ ApiExtractJobSkills
    \/ m_pc = "idle" /\ ApiExtractCvSkillsText
    \/ m_pc = "idle" /\ ExtractDone

SpecSequence == InitThresholds /\ [][NextSequence]_vars

(***************************************************************************)
(* Claims about match_skills                                               *)
(***************************************************************************)
Returned == m_pc = "returned"

EncodeOk == m_ok = <<TRUE, TRUE>>

JobSkillsMatched == {m_result.matched_skills[k].job_skill :
                        k \in DOMAIN m_result.matched_skills}

MinLen(a, b) == IF Len(a) <= Len(b) THEN Len(a) ELSE Len(b)

\* C1: for every non-empty list L and a similarity threshold of at most 1,
\* match_skills(L, L) scores 100.00 and leaves missing_skills and
\* extra_skills empty, also when L repeats a name or holds two names whose
\* embeddings coincide.
C1_SameListFullMatch ==
    (Returned /\ EncodeOk /\ m_cv # <<>> /\ m_cv = m_job /\ m_sim <= 10)
        => /\ m_result.match_score = 10000
           /\ m_result.missing_skills = <<>>
           /\ m_result.extra_skills = <<>>

\* C2: for a non-empty job list the score lies in 0..100 and is at most
\* min(|candidate|, |job|) / |job| * 100.
C2_ScoreBounded ==
    (Returned /\ m_job # <<>>)
        => /\ m_result.match_score \in 0..10000
           /\ m_result.match_score * Len(m_job) <= MinLen(m_cv, m_job) * 10000

\* C3: a score of 100.00 means every job skill is covered: missing_skills
\* is empty.
C3_FullScoreCoversJob ==
    (Returned /\ m_result.match_score = 10000)
        => m_result.missing_skills = <<>>

\* C4: with an empty candidate list or an empty job list the call returns
\* score 0.0, no matched skills, the job list as missing_skills and the
\* candidate list as extra_skills.
C4_EmptyInputDegenerate ==
    (Returned /\ (m_cv = <<>> \/ m_job = <<>>))
        => /\ m_result.match_score = 0
           /\ m_result.matched_skills = <<>>
           /\ m_result.missing_skills = m_job
           /\ m_result.extra_skills = m_cv

C4_Witness ==
    /\ Returned
    /\ m_job = <<>>
    /\ Len(m_cv) = 2
    /\ m_result.match_score = 0
    /\ m_result.extra_skills = m_cv

\* C5: missing_skills holds exactly the job skills with no match: a name is
\* in it if and only if it is in the job list and is the job_skill of no
\* record of matched_skills, repeated job names included.
C5_MissingIsUnmatchedJob ==
    Returned
        => \A n \in Names :
              In(n, m_result.missing_skills)
                  <=> (In(n, m_job) /\ n \notin JobSkillsMatched)

\* C6: for non-empty inputs that encode, the score is the number of matched
\* records over the number of job entries, times 100, rounded to 2 decimals
\* (within half a hundredth of the exact quotient).
C6_ScoreIsMatchedOverJob ==
    (Returned /\ EncodeOk /\ m_cv # <<>> /\ m_job # <<>>)
        => LET exact == 10000 * Len(m_result.matched_skills)
               shown == m_result.match_score * Len(m_job)
           IN  /\ 2 * (shown - exact) <= Len(m_job)
               /\ 2 * (exact - shown) <= Len(m_job)

\* three candidate skills, two job skills, one pair matched: 50.00
C6_Witness ==
    /\ Returned
    /\ EncodeOk
    /\ Len(m_cv) = 3
    /\ Len(m_job) = 2
    /\ Len(m_result.matched_skills) = 1
    /\ m_result.matched_skills[1].cv_skill = m_result.matched_skills[1].job_skill
    /\ Len(m_result.missing_skills) = 1
    /\ Len(m_result.extra_skills) = 2
    /\ m_result.match_score = 5000

\* C14: when model.encode raises for the candidate list or for the job
\* list, match_skills returns score 0.0, no matched skills, the job list as
\* missing_skills and the candidate list as extra_skills.
C14_EncodeFailureDegenerate ==
    (Returned /\ ~EncodeOk)
        => /\ m_result.match_score = 0
           /\ m_result.matched_skills = <<>>
           /\ m_result.missing_skills = m_job
           /\ m_result.extra_skills = m_cv

\* encoding the job list failed after the candidate list was encoded
C14_Witness ==
    /\ Returned
    /\ m_ok = <<TRUE, FALSE>>
    /\ Len(m_cv) = 2
    /\ Len(m_job) = 1
    /\ m_result.match_score = 0
    /\ m_result.missing_skills = m_job
    /\ m_result.extra_skills = m_cv

ExtractReturned == x_pc = "returned"

\* what the loop decided, phrase by phrase
Decisions == {x_outcome.log[i] : i \in DOMAIN x_outcome.log}

EscoSkillNames == {Value(esco_skills)[i].skill : i \in DOMAIN Value(esco_skills)}

\* the highest score of a phrase over all taxonomy names
BestWRatio(phrase, processor) ==
    CHOOSE s \in {WRatio(phrase, name, processor) : name \in EscoSkillNames} :
        \A name \in EscoSkillNames : WRatio(phrase, name, processor) <= s

\* C7: a phrase whose highest similarity reaches the similarity threshold,
\* equality included, resolves to the taxonomy entry at an index of that
\* highest similarity without extractOne being called for it, and the name
\* is in the returned standardized list; extractOne is called only for
\* phrases whose highest similarity is below the threshold.
C7_EmbeddingStageWins ==
    ExtractReturned =>
        \A d \in Decisions :
            /\ SeqMax(d.similarities) >= x_sim =>
                  /\ d.stage = "embedding"
                  /\ d.similarities[d.top_idx] = SeqMax(d.similarities)
                  /\ d.skill = Value(esco_skills)[d.top_idx].skill
                  /\ d.extractOne = {}
                  /\ x_outcome.kind = "done" =>
                        In(d.skill, Value(x_result).standardized)
            /\ d.extractOne # {} => SeqMax(d.similarities) < x_sim

\* a phrase whose highest similarity equals the threshold was standardized
C7_Witness ==
    /\ ExtractReturned
    /\ x_outcome.kind = "done"
    /\ \E d \in Decisions :
          /\ SeqMax(d.similarities) = x_sim
          /\ d.stage = "embedding"
          /\ In(d.skill, Value(x_result).standardized)

\* C8: a phrase whose highest similarity is below the similarity threshold
\* resolves to a taxonomy name of the highest fuzzy score over all names if
\* that score reaches the fuzzy threshold and to nothing otherwise; the
\* returned standardized list holds the names resolved to and nothing else,
\* and a phrase that resolved to nothing is in the returned raw list.
C8_FuzzyFallback ==
    ExtractReturned =>
        /\ \A d \in Decisions :
              SeqMax(d.similarities) < x_sim =>
                 IF BestWRatio(d.phrase, Value(d.processor)) >= x_fuzzy * 100
                 THEN /\ d.stage = "fuzzy"
                      /\ d.skill \in EscoSkillNames
                      /\ WRatio(d.phrase, d.skill, Value(d.processor))
                            = BestWRatio(d.phrase, Value(d.processor))
                 ELSE d.stage = "none"
        /\ x_outcome.kind = "done" =>
              /\ Range(Value(x_result).standardized)
                    = {d.skill : d \in {e \in Decisions : e.stage # "none"}}
              /\ \A d \in Decisions :
                    d.stage = "none" => In(d.phrase, Value(x_result).raw)

\* of two phrases below the similarity threshold one resolved by its fuzzy
\* score and the other to nothing
C8_Witness ==
    /\ ExtractReturned
    /\ x_outcome.kind = "done"
    /\ \E d \in Decisions :
          /\ SeqMax(d.similarities) < x_sim
          /\ d.stage = "fuzzy"
          /\ Value(x_result).standardized = <<d.skill>>
    /\ \E d \in Decisions :
          /\ SeqMax(d.similarities) < x_sim
          /\ d.stage = "none"
          /\ In(d.phrase, Value(x_result).raw)

\* C9: whichever return statement a call leaves by, the returned
\* standardized list is no longer than the returned raw list.
C9_StandardizedAtMostRaw ==
    (ExtractReturned /\ ~IsNone(x_result)) =>
        Len(Value(x_result).standardized) <= Len(Value(x_result).raw)

\* a phrase given twice was standardized both times and is returned once
C9_Witness ==
    /\ ExtractReturned
    /\ x_outcome.kind = "done"
    /\ Len(x_raw_skills) = 2
    /\ Len(StandardizedSkills(x_outcome.log)) = 2
    /\ Len(Value(x_result).standardized) = 1
    /\ Len(Value(x_result).raw) = 1

NoDuplicates(l) == \A i, j \in DOMAIN l : l[i] = l[j] => i = j

\* C10: whichever return statement a call leaves by, the returned raw list
\* holds each trimmed, non-empty phrase once and nothing else, also when no
\* taxonomy embeddings could be loaded or computed.
C10_RawDeduplicated ==
    (ExtractReturned /\ ~IsNone(x_result)) =>
        /\ NoDuplicates(Value(x_result).raw)
        /\ Range(Value(x_result).raw) = Range(x_raw_skills)

EmptyResult == {[standardized |-> <<>>, raw |-> <<>>]}

\* C11: when the call to the generative model raises, or its text is empty
\* once trimmed, the extraction call returns empty standardized and raw
\* lists and does not raise.
C11_NoSummaryEmptyResult ==
    (ExtractReturned /\ (x_response.raised \/ StripText(x_response.segments) = EmptyText))
        => x_result = EmptyResult

\* the generative model raised while a taxonomy matrix was on file
C11_Witness ==
    /\ ExtractReturned
    /\ x_response.raised
    /\ emb_file.kind = "array"
    /\ x_result = EmptyResult

\* C12: a non-empty answer that leaves no phrase after splitting on commas
\* and trimming gives empty standardized and raw lists, and the call does
\* not raise.
C12_NoPhraseEmptyResult ==
    (/\ ExtractReturned
     /\ ~x_response.raised
     /\ StripText(x_response.segments) # EmptyText
     /\ x_raw_skills = <<>>)
        => x_result = EmptyResult

\* C13: when embedder.encode raises for the phrases the call does not raise
\* and returns an empty standardized list.
C13_PhraseEncodingFails ==
    (ExtractReturned /\ x_encode.raw = "raised")
        => /\ ~IsNone(x_result)
           /\ Value(x_result).standardized = <<>>

\* C15: whenever similarities are computed, the taxonomy matrix has one row
\* per taxonomy entry: an array loaded from the file is used only with that
\* many rows, and each phrase has one similarity per entry.
C15_MatrixMatchesTaxonomy ==
    (ExtractReturned /\ x_encode.raw = "ok")
        => /\ x_encode.esco = "none" =>
                 Len(emb_file.rows) = Len(Value(esco_skills))
           /\ \A d \in Decisions :
                 Len(d.similarities) = Len(Value(esco_skills))

\* C16: once a request of this process has encoded the taxonomy, no later
\* request encodes it again.
C16_TaxonomyEncodedOnce ==
    [][(esco_encoded /\ x_pc = "received" /\ x_pc' = "returned")
          => x_encode'.esco = "none"]_vars

\* C20: every extraction request that has arrived is eventually answered,
\* also when the generative model's service stays silent.
C20_ExtractionReturns == (x_pc = "received") ~> (x_pc = "returned")

(***************************************************************************)
(* Claims about the records of match_skills                                *)
(***************************************************************************)
\* the loop ran: both lists were non-empty and both were encoded
Looped == Returned /\ m_similarity_matrix # <<>>

\* row-max of the candidate skill at position i
RowMax(i) == SeqMax(m_similarity_matrix[i])

\* the positions of the candidate list holding the name of a record
Positions(record) == {i \in DOMAIN m_cv : m_cv[i] = record.cv_skill}

SimilarityRecord(record) ==
    DOMAIN record = {"cv_skill", "job_skill", "similarity"}

FuzzyRecord(record) ==
    DOMAIN record = {"cv_skill", "job_skill", "fuzzy_score"}

\* C22: every record of matched_skills has exactly one of similarity and
\* fuzzy_score: similarity, and no fuzzy_score, when the row-max of its
\* candidate skill is at least the similarity threshold; fuzzy_score, and no
\* similarity, when the record came from the fuzzy fallback.
C22_OneScorePerRecord ==
    Looped =>
        \A k \in DOMAIN m_result.matched_skills :
            \A i \in Positions(m_result.matched_skills[k]) :
                /\ RowMax(i) >= m_sim
                      => /\ SimilarityRecord(m_result.matched_skills[k])
                         /\ m_result.matched_skills[k].similarity = RowMax(i)
                /\ RowMax(i) < m_sim
                      => /\ FuzzyRecord(m_result.matched_skills[k])
                         /\ m_result.matched_skills[k].fuzzy_score >= m_fuzzy * 100

\* a result holding a record of each stage
C22_Witness ==
    /\ Looped
    /\ \E k \in DOMAIN m_result.matched_skills :
          SimilarityRecord(m_result.matched_skills[k])
    /\ \E k \in DOMAIN m_result.matched_skills :
          FuzzyRecord(m_result.matched_skills[k])

\* the job positions whose name clears the fuzzy threshold for candidate i
Qualifying(i) ==
    {j \in DOMAIN m_job : LoweredRatio[m_cv[i], m_job[j]] >= m_fuzzy * 100}

Earliest(Q) == CHOOSE j \in Q : \A k \in Q : j <= k

\* the records of the candidate skill at position i
RecordsOf(i) ==
    {k \in DOMAIN m_result.matched_skills :
        m_result.matched_skills[k].cv_skill = m_cv[i]}

\* C23: for a candidate skill whose row-max is below the similarity
\* threshold, the fuzzy fallback records the earliest job skill of the list
\* whose fuzzy score is at least the fuzzy threshold, with that score,
\* whether or not a later one scores higher, and records nothing when no job
\* skill qualifies.
C23_FirstSufficientHit ==
    Looped =>
        \A i \in DOMAIN m_cv :
            RowMax(i) < m_sim =>
                IF Qualifying(i) = {}
                THEN RecordsOf(i) = {}
                ELSE /\ Cardinality(RecordsOf(i)) =
                            Cardinality({p \in DOMAIN m_cv : m_cv[p] = m_cv[i]})
                     /\ \A k \in RecordsOf(i) :
                          /\ FuzzyRecord(m_result.matched_skills[k])
                          /\ m_result.matched_skills[k].job_skill =
                                m_job[Earliest(Qualifying(i))]
                          /\ m_result.matched_skills[k].fuzzy_score =
                                LoweredRatio[m_cv[i], m_job[Earliest(Qualifying(i))]]

\* a candidate skill below the similarity threshold for which a later job
\* skill scores higher than the one recorded
C23_Witness ==
    /\ Looped
    /\ \E i \in DOMAIN m_cv :
          /\ RowMax(i) < m_sim
          /\ \E j \in Qualifying(i) :
                LoweredRatio[m_cv[i], m_job[j]] >
                    LoweredRatio[m_cv[i], m_job[Earliest(Qualifying(i))]]
          /\ \E k \in RecordsOf(i) :
                m_result.matched_skills[k].job_skill = m_job[Earliest(Qualifying(i))]

\* list.count(x)
Count(s, x) == Cardinality({i \in DOMAIN s : s[i] = x})

\* the candidate positions for which one of the two stages finds a job skill
Matching == {i \in DOMAIN m_cv : RowMax(i) >= m_sim \/ Qualifying(i) # {}}

\* the records naming job skill n
RecordsFor(n) ==
    {k \in DOMAIN m_result.matched_skills :
        m_result.matched_skills[k].job_skill = n}

\* C26: when several candidate skills, repeated names included, match the
\* same job skill, each adds its own record; each record takes at most one
\* occurrence of its job skill out of missing_skills, and a record whose job
\* skill is no longer in missing_skills leaves the list as it is.
C26_OneRemovalPerRecord ==
    Looped =>
        /\ Len(m_result.matched_skills) = Cardinality(Matching)
        /\ \A n \in Range(m_job) :
              Count(m_result.missing_skills, n) =
                 IF Count(m_job, n) >= Cardinality(RecordsFor(n))
                 THEN Count(m_job, n) - Cardinality(RecordsFor(n))
                 ELSE 0

\* a job skill matched by more records than the list has occurrences of
\* it, two of them for a repeated candidate name, next to a job skill that
\* stays missing
C26_Witness ==
    /\ Looped
    /\ Len(m_result.missing_skills) = 1
    /\ \E n \in Range(m_job) :
          /\ Cardinality(RecordsFor(n)) > Count(m_job, n)
          /\ \E i, p \in DOMAIN m_cv : i # p /\ m_cv[i] = m_cv[p]

\* the records whose candidate skill is n
RecordsNaming(n) ==
    {k \in DOMAIN m_result.matched_skills :
        m_result.matched_skills[k].cv_skill = n}

\* C27: in a result of the loop every candidate position produces at most
\* one record, and extra_skills holds the candidate entries that produced
\* none: name by name, the occurrences in extra_skills and the records with
\* that cv_skill add up to the occurrences in the candidate list, and a name
\* has a record for each of its positions or for none, so that
\* len(extra_skills) + len(matched_skills) = len(cv_skills).
C27_ExtraIsUnmatchedCv ==
    Looped =>
        /\ Len(m_result.extra_skills) + Len(m_result.matched_skills) = Len(m_cv)
        /\ \A i \in DOMAIN m_cv :
              /\ Count(m_result.extra_skills, m_cv[i])
                    + Cardinality(RecordsNaming(m_cv[i])) = Count(m_cv, m_cv[i])
              /\ Cardinality(RecordsNaming(m_cv[i])) =
                    IF i \in Matching THEN Count(m_cv, m_cv[i]) ELSE 0

\* a candidate list with a name twice, a record for each of the two
\* positions and neither left in extra_skills
C27_Witness ==
    /\ Looped
    /\ \E i, p \in DOMAIN m_cv :
          /\ i # p
          /\ m_cv[i] = m_cv[p]
          /\ Cardinality(RecordsNaming(m_cv[i])) = 2
          /\ ~In(m_cv[i], m_result.extra_skills)

(***************************************************************************)
(* Claims about match_skills called again                                  *)
(***************************************************************************)
\* the call that returned had the lists and the similarities of the kept one
SameCall ==
    /\ m_pc = "returned"
    /\ ~IsNone(m_first)
    /\ m_cv = Value(m_first).cv_skills
    /\ m_job = Value(m_first).job_skills
    /\ m_similarity_matrix = Value(m_first).similarity_matrix

C28_ThresholdsRestored ==
    /\ <<match_SIMILARITY_THRESHOLD, match_FUZZY_THRESHOLD>> = <<3, 80>>
    /\ <<extract_SIMILARITY_THRESHOLD, extract_FUZZY_THRESHOLD>> = <<6, 90>>
    /\ <<cv_SIMILARITY_THRESHOLD, cv_FUZZY_THRESHOLD>> = <<4, 90>>

\* an extraction request that set both thresholds and whose engine call
\* raised
C28_Witness ==
    /\ x_pc = "returned"
    /\ x_override = <<{10}, {50}>>
    /\ <<x_sim, x_fuzzy>> = <<10, 50>>
    /\ x_outcome.kind = "raised"
    /\ x_result = None
    /\ C28_ThresholdsRestored

(***************************************************************************)
(* Claims about applications                                               *)
(***************************************************************************)
\* C29: in every reachable state at most one Application exists per
\* candidate and job posting.
C29_OneApplicationPerPair ==
    \A k, l \in DOMAIN apply_db.applications :
        apply_db.applications[k] = apply_db.applications[l] => k = l

(***************************************************************************)
(* Claims about _classify_intent                                           *)
(***************************************************************************)
\* C30: a message that is exactly a phrase listed under an intent is
\* classified as that intent.
C30_PhraseClassifiedAsListed ==
    intent_call.pc = "returned" =>
        \A k \in DOMAIN intent_patterns :
            \A p \in DOMAIN intent_patterns[k].patterns :
                intent_call.message = Join(intent_patterns[k].patterns[p])
                    => intent_call.intent = intent_patterns[k].intent

(***************************************************************************)
(* Claims about get_embeddings                                             *)
(***************************************************************************)
\* C25: get_embeddings returns one vector per input text, in input order,
\* when every batch is encoded, and the empty array, without the vectors of
\* the batches encoded before, as soon as encode raises for a batch.
C25_AllBatchesOrNothing ==
    batch_call.pc = "returned" =>
        IF batch_call.raises = {}
        THEN /\ Len(batch_call.result) = Len(batch_call.texts)
             /\ \A i \in DOMAIN batch_call.texts :
                   batch_call.result[i] = batch_call.embedder[batch_call.texts[i]]
        ELSE batch_call.result = <<>>

\* three batches of which the first two were encoded and the third raised
C25_Witness ==
    /\ batch_call.pc = "returned"
    /\ Len(batch_call.texts) > 2 * batch_call.batch_size
    /\ batch_call.raises = {3}
    /\ batch_call.result = <<>>

(***************************************************************************)
(* Claims about load_models_if_needed                                      *)
(***************************************************************************)
\* C24: within one process, whatever requests arrive, the taxonomy is loaded
\* at most once and the pretrained embedding model is loaded at most once.
C24_LoadedAtMostOnce ==
    /\ models.taxonomy_loads <= 1
    /\ models.model_loads <= 1

(***************************************************************************)
(* Claims about the taxonomy load                                          *)
(***************************************************************************)
Loaded == ~IsNone(esco_skills)

\* C17: load_esco_skills returns the built-in taxonomy of five entries when
\* the file is absent or cannot be read or parsed, and the file's entries
\* in file order otherwise; it never raises.
C17_LoadFailsSoft ==
    Loaded =>
        IF esco_file.kind = "json"
        THEN Value(esco_skills) = esco_file.records
        ELSE /\ Value(esco_skills) = DefaultTaxonomy
             /\ Len(Value(esco_skills)) = 5

\* an unreadable file was answered with the five built-in entries
C17_Witness ==
    /\ Loaded
    /\ esco_file.kind = "unreadable"
    /\ Len(Value(esco_skills)) = 5
    /\ Value(esco_skills)[2].skill = "SQL"

\* C18: every entry of the loaded taxonomy has a non-empty name; a record
\* of the file without a name or with an empty one is not among them.
C18_LoadedNamesNonEmpty ==
    Loaded =>
        \A i \in DOMAIN Value(esco_skills) :
            /\ "skill" \in DOMAIN Value(esco_skills)[i]
            /\ Value(esco_skills)[i].skill # ""

====
